---- MODULE Spec2Model ----
(***************************************************************************)
(* PngCache / EasyPngCache (src/src/caches): a HashMap guarded by a tokio  *)
(* RwLock, an EvictionQueue guarded by a second RwLock, concurrent `get`   *)
(* callers and the detached cleanup task.  Both cache flavours run the     *)
(* same protocol; a key stands for a CacheKey of either shape.             *)
(*                                                                         *)
(* A step of a process is one section of code between two .await points   *)
(* (lock acquisitions) or the loader call.  A caller that has not yet been *)
(* granted the initial read lock has not acted and counts as idle.         *)
(* Time is the Instant clock in seconds; it advances in steps of TickStep. *)
(* An artifact is <<key, version>>: the loader may produce a different     *)
(* version of a key's image each time it runs.                             *)
(***************************************************************************)
EXTENDS Integers, Sequences, FiniteSets, TLC

\* ---- bounds of the model ------------------------------------------------
NumProcs == 2
NumKeys == 3
NumVersions == 1
MaxCap == 2
MaxTicks == 1
MaxAccess == 2

\* ---- program constants --------------------------------------------------
TTL == 3600

TickStep == TTL

Procs == 1..NumProcs
Keys == 1..NumKeys
Versions == 1..NumVersions
Sweeper == 0
NoOwner == -1
NoKey == 0
NoImage == <<>>
Pending == <<0>>

VARIABLES
    max_size,        \* PngCache.max_size (= EvictionQueue.max_size)
    cache,           \* the HashMap: key -> CacheEntry
    eviction_queue,  \* EvictionQueue.queue, front first
    cache_lock,      \* RwLock of the HashMap: [readers, writer]
    queue_lock,      \* RwLock of the EvictionQueue: its writer
    pc,              \* position of each get caller
    key,             \* the key of the call in progress
    image,           \* the artifact cloned at the first check
    result,          \* the value the call returns (NoImage = None)
    clock,           \* Instant::now()
    sweep,           \* cleanup task: [pc, now, keys_to_remove]
    hist             \* observations of a sequential caller (SeqSpec only): map and
                     \* queue when the call began, key and result of the call
                     \* just before it (kept during a call for the same key);
                     \* in ScenarioSpec the calls made and the loader calls so far

vars == <<max_size, cache, eviction_queue, cache_lock, queue_lock, pc, key,
          image, result, clock, sweep, hist>>

procvars == <<pc, key, image, result>>

\* ---- CacheEntry and the HashMap -----------------------------------------
\* The access counter of a new entry starts at zero.
CacheEntryZero(img, t) == [image |-> img, access_count |-> 0, last_accessed |-> t]

CacheEntry(img, t) == [image |-> img, access_count |-> 1, last_accessed |-> t]

len(c) == Cardinality(DOMAIN c)

is_empty(c) == DOMAIN c = {}

\* A lookup that never finds the key.
LookupMiss(c, k) == NoImage

Lookup(c, k) == IF k \in DOMAIN c THEN c[k].image ELSE NoImage

remove(c, k) == [x \in DOMAIN c \ {k} |-> c[x]]

insert(c, k, e) == [x \in DOMAIN c \cup {k} |-> IF x = k THEN e ELSE c[x]]

touch(c, k, t) ==
    IF k \in DOMAIN c
    THEN [c EXCEPT ![k] = [@ EXCEPT !.access_count = @ + 1, !.last_accessed = t]]
    ELSE c

get_stats(c, k) ==
    IF k \in DOMAIN c THEN <<c[k].access_count, c[k].last_accessed>> ELSE <<>>

\* ---- EvictionQueue ------------------------------------------------------
position(q, k) ==
    IF \E i \in 1..Len(q) : q[i] = k
    THEN CHOOSE i \in 1..Len(q) : q[i] = k /\ \A j \in 1..(i - 1) : q[j] # k
    ELSE 0

remove_at(q, i) == SubSeq(q, 1, i - 1) \o SubSeq(q, i + 1, Len(q))

pop_front(q) == IF q = <<>> THEN q ELSE Tail(q)

\* A key already queued keeps its place (first-in first-out, no move to the back).
update_keeps_position(q, k, m) ==
    IF position(q, k) # 0
    THEN q
    ELSE Append(IF Len(q) >= m THEN pop_front(q) ELSE q, k)

\* No search for the key: it is pushed again without removing its old position.
update_no_dedup(q, k, m) ==
    Append(IF Len(q) >= m THEN pop_front(q) ELSE q, k)

\* The front is dropped only once the queue is already over its capacity.
update_late_pop(q, k, m) ==
    LET q1 == IF position(q, k) # 0 THEN remove_at(q, position(q, k)) ELSE q
        q2 == IF Len(q1) > m THEN pop_front(q1) ELSE q1
    IN  Append(q2, k)

update(q, k, m) ==
    LET q1 == IF position(q, k) # 0 THEN remove_at(q, position(q, k)) ELSE q
        q2 == IF Len(q1) >= m THEN pop_front(q1) ELSE q1
    IN  Append(q2, k)

get_oldest(q) == IF q = <<>> THEN NoKey ELSE Head(q)

\* ---- eviction and insertion of a freshly loaded artifact ----------------
\* Eviction only once the map is already over capacity.
EvictIfOverFull(c, q, m) ==
    IF len(c) > m /\ get_oldest(q) # NoKey THEN remove(c, get_oldest(q)) ELSE c

\* A cache of capacity zero is treated as unbounded: it never evicts.
EvictUnlessZero(c, q, m) ==
    IF m > 0 /\ len(c) >= m /\ get_oldest(q) # NoKey THEN remove(c, get_oldest(q)) ELSE c

EvictIfFull(c, q, m) ==
    IF len(c) >= m /\ get_oldest(q) # NoKey THEN remove(c, get_oldest(q)) ELSE c

InsertLoaded(c, q, m, k, img, t) == insert(EvictIfFull(c, q, m), k, CacheEntry(img, t))

\* ---- expiry -------------------------------------------------------------
\* Instant::duration_since saturates to zero when `earlier` is later than self.
duration_since(now, earlier) == IF now >= earlier THEN now - earlier ELSE 0

\* Expiry only strictly after the time-to-live.
ExpiredStrict(e, now) == duration_since(now, e.last_accessed) > TTL

Expired(e, now) == duration_since(now, e.last_accessed) >= TTL

ExpiredKeys(c, now) == {k \in DOMAIN c : Expired(c[k], now)}

\* ---- locks --------------------------------------------------------------
\* tokio's RwLock grants in FIFO order.  No process waits for a lock while it
\* holds a guard of the same lock, so the order of granting adds no blocked
\* state; a lock is granted here whenever it is free.
CanRead(l) == l.writer = NoOwner

CanWrite(l) == l.writer = NoOwner /\ l.readers = {}

Quiescent == (\A p \in Procs : pc[p] = "idle") /\ sweep.pc = "idle"

NoHist ==
    [cache |-> <<>>, queue |-> <<>>, prev_key |-> NoKey, prev_result |-> NoImage,
     calls |-> 0, loads |-> 0]

\* PngCache::new(m): empty map, empty queue, cleanup task spawned.
New(m) ==
    /\ max_size = m
    /\ cache = <<>>
    /\ eviction_queue = <<>>
    /\ cache_lock = [readers |-> {}, writer |-> NoOwner]
    /\ queue_lock = NoOwner
    /\ pc = [p \in Procs |-> "idle"]
    /\ key = [p \in Procs |-> NoKey]
    /\ image = [p \in Procs |-> NoImage]
    /\ result = [p \in Procs |-> Pending]
    /\ clock = 0
    /\ sweep = [pc |-> "idle", now |-> 0, keys_to_remove |-> {}]
    /\ hist = NoHist

Init == \E m \in 1..MaxCap : New(m)

\* ---- PngCache::get ------------------------------------------------------
\* self.cache.read().await is granted and the key is looked up.
\* access_count is a u32; calls for a key whose count reached MaxAccess are
\* not started, which keeps the counter (and the state space) bounded.
BeginGet(p, k) ==
    /\ pc[p] = "idle"
    /\ CanRead(cache_lock)
    /\ k \in DOMAIN cache => cache[k].access_count < MaxAccess
    /\ cache_lock' = [cache_lock EXCEPT !.readers = @ \cup {p}]
    /\ pc' = [pc EXCEPT ![p] = "first_check"]
    /\ key' = [key EXCEPT ![p] = k]
    /\ image' = [image EXCEPT ![p] = Lookup(cache, k)]
    /\ UNCHANGED <<max_size, cache, eviction_queue, queue_lock, result, clock, sweep>>

get_begin(p, k) == BeginGet(p, k) /\ UNCHANGED hist

\* The read guard kept alive across the metadata update.
first_check_keeps_guard(p) ==
    /\ pc[p] = "first_check"
    /\ pc' = [pc EXCEPT ![p] = IF image[p] # NoImage THEN "hit_cache_lock" ELSE "miss_cache_lock"]
    /\ UNCHANGED <<max_size, cache, eviction_queue, cache_lock, queue_lock, key, image, result,
                   clock, sweep, hist>>

\* The read guard is dropped at the end of the block.
get_first_check(p) ==
    /\ pc[p] = "first_check"
    /\ cache_lock' = [cache_lock EXCEPT !.readers = @ \ {p}]
    /\ pc' = [pc EXCEPT ![p] = IF image[p] # NoImage THEN "hit_cache_lock" ELSE "miss_cache_lock"]
    /\ UNCHANGED <<max_size, cache, eviction_queue, queue_lock, key, image, result,
                   clock, sweep, hist>>

\* self.cache.write().await on either path.
get_cache_write(p) ==
    /\ pc[p] \in {"hit_cache_lock", "miss_cache_lock"}
    /\ CanWrite(cache_lock)
    /\ cache_lock' = [cache_lock EXCEPT !.writer = p]
    /\ pc' = [pc EXCEPT ![p] = IF pc[p] = "hit_cache_lock" THEN "hit_queue_lock" ELSE "miss_queue_lock"]
    /\ UNCHANGED <<max_size, cache, eviction_queue, queue_lock, key, image, result,
                   clock, sweep, hist>>

\* self.eviction_queue.write().await on either path.
get_queue_write(p) ==
    /\ pc[p] \in {"hit_queue_lock", "miss_queue_lock"}
    /\ queue_lock = NoOwner
    /\ queue_lock' = p
    /\ pc' = [pc EXCEPT ![p] = IF pc[p] = "hit_queue_lock" THEN "hit_update" ELSE "recheck"]
    /\ UNCHANGED <<max_size, cache, eviction_queue, cache_lock, key, image, result,
                   clock, sweep, hist>>

\* Both guards are dropped when get returns.
Unlock(p) ==
    /\ cache_lock' = [cache_lock EXCEPT !.writer = NoOwner]
    /\ queue_lock' = NoOwner

\* A hit whose entry is gone puts the cloned artifact back as a new entry.
hit_update_reinserts(p) ==
    /\ pc[p] = "hit_update"
    /\ cache' = IF key[p] \in DOMAIN cache
                THEN touch(cache, key[p], clock)
                ELSE insert(cache, key[p], CacheEntry(image[p], clock))
    /\ eviction_queue' = update(eviction_queue, key[p], max_size)
    /\ Unlock(p)
    /\ result' = [result EXCEPT ![p] = image[p]]
    /\ pc' = [pc EXCEPT ![p] = "done"]
    /\ UNCHANGED <<max_size, key, image, clock, sweep, hist>>

\* The hit path returns with both write guards still held.
hit_update_keeps_locks(p) ==
    /\ pc[p] = "hit_update"
    /\ cache' = touch(cache, key[p], clock)
    /\ eviction_queue' = update(eviction_queue, key[p], max_size)
    /\ result' = [result EXCEPT ![p] = image[p]]
    /\ pc' = [pc EXCEPT ![p] = "done"]
    /\ UNCHANGED <<max_size, cache_lock, queue_lock, key, image, clock, sweep, hist>>

\* Hit found at the first check: touch the entry, update the queue, return the clone.
get_hit_update(p) ==
    /\ pc[p] = "hit_update"
    /\ cache' = touch(cache, key[p], clock)
    /\ eviction_queue' = update(eviction_queue, key[p], max_size)
    /\ Unlock(p)
    /\ result' = [result EXCEPT ![p] = image[p]]
    /\ pc' = [pc EXCEPT ![p] = "done"]
    /\ UNCHANGED <<max_size, key, image, clock, sweep, hist>>

\* The write guards dropped before the loader runs.
recheck_drops_locks(p) ==
    /\ pc[p] = "recheck"
    /\ Unlock(p)
    /\ IF key[p] \in DOMAIN cache
       THEN /\ result' = [result EXCEPT ![p] = cache[key[p]].image]
            /\ pc' = [pc EXCEPT ![p] = "done"]
       ELSE /\ pc' = [pc EXCEPT ![p] = "loading"]
            /\ UNCHANGED result
    /\ UNCHANGED <<max_size, cache, eviction_queue, key, image, clock, sweep, hist>>

\* No double-check: the caller that missed at the first check always loads.
recheck_skipped(p) ==
    /\ pc[p] = "recheck"
    /\ pc' = [pc EXCEPT ![p] = "loading"]
    /\ UNCHANGED <<max_size, cache, eviction_queue, cache_lock, queue_lock, key, image,
                   result, clock, sweep, hist>>

\* Negative caching: a key whose previous load failed is not loaded again.
recheck_remembers_failure(p) ==
    /\ pc[p] = "recheck"
    /\ IF Lookup(cache, key[p]) # NoImage
       THEN /\ result' = [result EXCEPT ![p] = Lookup(cache, key[p])]
            /\ pc' = [pc EXCEPT ![p] = "done"]
            /\ Unlock(p)
       ELSE IF hist.prev_key = key[p] /\ hist.prev_result = NoImage
            THEN /\ result' = [result EXCEPT ![p] = NoImage]
                 /\ pc' = [pc EXCEPT ![p] = "done"]
                 /\ Unlock(p)
            ELSE /\ pc' = [pc EXCEPT ![p] = "loading"]
                 /\ UNCHANGED <<result, cache_lock, queue_lock>>
    /\ UNCHANGED <<max_size, cache, eviction_queue, key, image, clock, sweep, hist>>

\* The re-check relies on what the first check saw instead of reading the map.
recheck_trusts_first_check(p) ==
    /\ pc[p] = "recheck"
    /\ IF image[p] # NoImage
       THEN /\ result' = [result EXCEPT ![p] = image[p]]
            /\ pc' = [pc EXCEPT ![p] = "done"]
            /\ Unlock(p)
       ELSE /\ pc' = [pc EXCEPT ![p] = "loading"]
            /\ UNCHANGED <<result, cache_lock, queue_lock>>
    /\ UNCHANGED <<max_size, cache, eviction_queue, key, image, clock, sweep, hist>>

\* Double-check after acquiring the write locks.
get_recheck(p) ==
    /\ pc[p] = "recheck"
    /\ IF Lookup(cache, key[p]) # NoImage
       THEN /\ result' = [result EXCEPT ![p] = Lookup(cache, key[p])]
            /\ pc' = [pc EXCEPT ![p] = "done"]
            /\ Unlock(p)
       ELSE /\ pc' = [pc EXCEPT ![p] = "loading"]
            /\ UNCHANGED <<result, cache_lock, queue_lock>>
    /\ UNCHANGED <<max_size, cache, eviction_queue, key, image, clock, sweep, hist>>

\* Image::try_new_from_file returned Ok: version v of the key's image.
LoadOk(p, v) ==
    /\ pc[p] = "loading"
    /\ cache' = InsertLoaded(cache, eviction_queue, max_size, key[p], <<key[p], v>>, clock)
    /\ eviction_queue' = update(eviction_queue, key[p], max_size)
    /\ Unlock(p)
    /\ result' = [result EXCEPT ![p] = <<key[p], v>>]
    /\ pc' = [pc EXCEPT ![p] = "done"]
    /\ UNCHANGED <<max_size, key, image, clock, sweep>>

get_load_ok(p, v) == LoadOk(p, v) /\ UNCHANGED hist

\* queue.update(key) run for a failed load as well.
load_err_updates_queue(p) ==
    /\ pc[p] = "loading"
    /\ eviction_queue' = update(eviction_queue, key[p], max_size)
    /\ Unlock(p)
    /\ result' = [result EXCEPT ![p] = NoImage]
    /\ pc' = [pc EXCEPT ![p] = "done"]
    /\ UNCHANGED <<max_size, cache, key, image, clock, sweep, hist>>

\* Image::try_new_from_file returned Err.
get_load_err(p) ==
    /\ pc[p] = "loading"
    /\ Unlock(p)
    /\ result' = [result EXCEPT ![p] = NoImage]
    /\ pc' = [pc EXCEPT ![p] = "done"]
    /\ UNCHANGED <<max_size, cache, eviction_queue, key, image, clock, sweep, hist>>

\* The caller has its return value; its locals go out of scope.
Return(p) ==
    /\ pc[p] = "done"
    /\ pc' = [pc EXCEPT ![p] = "idle"]
    /\ key' = [key EXCEPT ![p] = NoKey]
    /\ image' = [image EXCEPT ![p] = NoImage]
    /\ result' = [result EXCEPT ![p] = Pending]
    /\ UNCHANGED <<max_size, cache, eviction_queue, cache_lock, queue_lock, clock, sweep>>

get_return(p) == Return(p) /\ UNCHANGED hist

\* ---- the cleanup task ---------------------------------------------------
\* interval.tick() fired: now is taken, then cache.read().await is requested.
StartCleanup ==
    /\ sweep.pc = "idle"
    /\ sweep' = [pc |-> "read_lock", now |-> clock, keys_to_remove |-> {}]
    /\ UNCHANGED <<max_size, cache, eviction_queue, cache_lock, queue_lock, procvars, clock>>

cleanup_start == StartCleanup /\ UNCHANGED hist

cleanup_read ==
    /\ sweep.pc = "read_lock"
    /\ CanRead(cache_lock)
    /\ cache_lock' = [cache_lock EXCEPT !.readers = @ \cup {Sweeper}]
    /\ sweep' = [sweep EXCEPT !.pc = "collect"]
    /\ UNCHANGED <<max_size, cache, eviction_queue, queue_lock, procvars, clock, hist>>

cleanup_collect ==
    /\ sweep.pc = "collect"
    /\ cache_lock' = [cache_lock EXCEPT !.readers = @ \ {Sweeper}]
    /\ LET ks == ExpiredKeys(cache, sweep.now)
       IN  sweep' = IF ks = {}
                    THEN [pc |-> "idle", now |-> 0, keys_to_remove |-> {}]
                    ELSE [sweep EXCEPT !.pc = "write_lock", !.keys_to_remove = ks]
    /\ UNCHANGED <<max_size, cache, eviction_queue, queue_lock, procvars, clock, hist>>

cleanup_write ==
    /\ sweep.pc = "write_lock"
    /\ CanWrite(cache_lock)
    /\ cache_lock' = [cache_lock EXCEPT !.writer = Sweeper]
    /\ sweep' = [sweep EXCEPT !.pc = "remove"]
    /\ UNCHANGED <<max_size, cache, eviction_queue, queue_lock, procvars, clock, hist>>

\* The removed keys are taken out of the eviction queue as well.
cleanup_remove_and_dequeue ==
    /\ sweep.pc = "remove"
    /\ cache' = [x \in DOMAIN cache \ sweep.keys_to_remove |-> cache[x]]
    /\ eviction_queue' = SelectSeq(eviction_queue, LAMBDA x : x \notin sweep.keys_to_remove)
    /\ cache_lock' = [cache_lock EXCEPT !.writer = NoOwner]
    /\ sweep' = [pc |-> "idle", now |-> 0, keys_to_remove |-> {}]
    /\ UNCHANGED <<max_size, queue_lock, procvars, clock, hist>>

cleanup_remove ==
    /\ sweep.pc = "remove"
    /\ cache' = [x \in DOMAIN cache \ sweep.keys_to_remove |-> cache[x]]
    /\ cache_lock' = [cache_lock EXCEPT !.writer = NoOwner]
    /\ sweep' = [pc |-> "idle", now |-> 0, keys_to_remove |-> {}]
    /\ UNCHANGED <<max_size, eviction_queue, queue_lock, procvars, clock, hist>>

\* ---- time ---------------------------------------------------------------
Tick ==
    /\ clock < MaxTicks * TickStep
    /\ clock' = clock + TickStep
    /\ UNCHANGED <<max_size, cache, eviction_queue, cache_lock, queue_lock, procvars, sweep, hist>>

Next ==
    \/ \E p \in Procs, k \in Keys : get_begin(p, k)
    \/ \E p \in Procs : get_first_check(p)
    \/ \E p \in Procs : get_cache_write(p)
    \/ \E p \in Procs : get_queue_write(p)
    \/ \E p \in Procs : get_hit_update(p)
    \/ \E p \in Procs : get_recheck(p)
    \/ \E p \in Procs, v \in Versions : get_load_ok(p, v)
    \/ \E p \in Procs : get_load_err(p)
    \/ \E p \in Procs : get_return(p)
    \/ cleanup_start
    \/ cleanup_read
    \/ cleanup_collect
    \/ cleanup_write
    \/ cleanup_remove
    \/ Tick

Spec == Init /\ [][Next]_vars

\* ---- non-overlapping calls: one get or one sweep at a time --------------
SeqInit == \E m \in 0..MaxCap : New(m)

\* Calls that do not overlap behave the same whichever thread issues them.
SeqCaller == CHOOSE p \in Procs : TRUE

seq_get_begin(p, k) ==
    /\ Quiescent
    /\ BeginGet(p, k)
    /\ hist' = IF hist.prev_key = k
               THEN [hist EXCEPT !.cache = cache, !.queue = eviction_queue]
               ELSE [NoHist EXCEPT !.cache = cache, !.queue = eviction_queue]

seq_get_return(p) ==
    /\ Return(p)
    /\ hist' = [NoHist EXCEPT !.prev_key = key[p], !.prev_result = result[p]]

seq_cleanup_start ==
    /\ Quiescent
    /\ StartCleanup
    /\ hist' = NoHist

SeqNext ==
    \/ \E k \in Keys : seq_get_begin(SeqCaller, k)
    \/ \E p \in Procs : get_first_check(p)
    \/ \E p \in Procs : get_cache_write(p)
    \/ \E p \in Procs : get_queue_write(p)
    \/ \E p \in Procs : get_hit_update(p)
    \/ \E p \in Procs : get_recheck(p)
    \/ \E p \in Procs, v \in Versions : get_load_ok(p, v)
    \/ \E p \in Procs : get_load_err(p)
    \/ \E p \in Procs : seq_get_return(p)
    \/ seq_cleanup_start
    \/ cleanup_read
    \/ cleanup_collect
    \/ cleanup_write
    \/ cleanup_remove
    \/ Tick

SeqSpec == SeqInit /\ [][SeqNext]_vars

\* ---- the reference scenario: capacity 2, get(A) get(B) get(A) get(C) get(B),
\* ---- a loader that always succeeds, no sweep ------------------------------
Scenario == <<1, 2, 1, 3, 2>>

ScenarioInit == New(2)

scenario_get_begin(p) ==
    /\ Quiescent
    /\ hist.calls < Len(Scenario)
    /\ BeginGet(p, Scenario[hist.calls + 1])
    /\ hist' = [hist EXCEPT !.calls = @ + 1]

scenario_load_ok(p, v) ==
    /\ LoadOk(p, v)
    /\ hist' = [hist EXCEPT !.loads = @ + 1]

ScenarioNext ==
    \/ \E p \in Procs : scenario_get_begin(p)
    \/ \E p \in Procs : get_first_check(p)
    \/ \E p \in Procs : get_cache_write(p)
    \/ \E p \in Procs : get_queue_write(p)
    \/ \E p \in Procs : get_hit_update(p)
    \/ \E p \in Procs : get_recheck(p)
    \/ \E p \in Procs, v \in Versions : scenario_load_ok(p, v)
    \/ \E p \in Procs : get_return(p)
    \/ Tick

ScenarioSpec == ScenarioInit /\ [][ScenarioNext]_vars

\* ---- fair runs: a call is issued first and then waits for the read lock ----
\* get is called with key k: self.cache.read().await is requested.
get_call(p, k) ==
    /\ pc[p] = "idle"
    /\ k \in DOMAIN cache => cache[k].access_count < MaxAccess
    /\ pc' = [pc EXCEPT ![p] = "read_lock"]
    /\ key' = [key EXCEPT ![p] = k]
    /\ UNCHANGED <<max_size, cache, eviction_queue, cache_lock, queue_lock, image, result,
                   clock, sweep, hist>>

\* The read lock is granted and the key is looked up.
get_read(p) ==
    /\ pc[p] = "read_lock"
    /\ CanRead(cache_lock)
    /\ cache_lock' = [cache_lock EXCEPT !.readers = @ \cup {p}]
    /\ pc' = [pc EXCEPT ![p] = "first_check"]
    /\ image' = [image EXCEPT ![p] = Lookup(cache, key[p])]
    /\ UNCHANGED <<max_size, cache, eviction_queue, queue_lock, key, result, clock, sweep, hist>>

\* The loader returns, with an image or with an error.
get_load(p) == (\E v \in Versions : get_load_ok(p, v)) \/ get_load_err(p)

\* Fair runs call get for all keys but the last one.
LiveKeys == {k \in Keys : k < NumKeys}

LiveInit == New(1)

LiveNext ==
    \/ \E p \in Procs, k \in LiveKeys : get_call(p, k)
    \/ \E p \in Procs : get_read(p)
    \/ \E p \in Procs : get_first_check(p)
    \/ \E p \in Procs : get_cache_write(p)
    \/ \E p \in Procs : get_queue_write(p)
    \/ \E p \in Procs : get_hit_update(p)
    \/ \E p \in Procs : get_recheck(p)
    \/ \E p \in Procs : get_load(p)
    \/ \E p \in Procs : get_return(p)
    \/ cleanup_start
    \/ cleanup_read
    \/ cleanup_collect
    \/ cleanup_write
    \/ cleanup_remove
    \/ Tick

\* tokio's RwLock grants its waiters in first-in first-out order, so a lock
\* that is released again and again is granted to every caller waiting for it
\* (strong fairness of the callers' acquisitions of the map's lock); a task that
\* can run is scheduled (weak fairness of the steps that need no lock or a lock
\* nobody else can hold); the loader returns; the cleanup task, whenever it
\* holds a guard, goes on to drop it.  How often the cleanup task runs is left
\* open: it may run forever.
LiveFairness ==
    /\ \A p \in Procs :
          /\ SF_vars(get_read(p))
          /\ WF_vars(get_first_check(p))
          /\ SF_vars(get_cache_write(p))
          /\ WF_vars(get_queue_write(p))
          /\ WF_vars(get_hit_update(p))
          /\ WF_vars(get_recheck(p))
          /\ WF_vars(get_load(p))
    /\ WF_vars(cleanup_collect)
    /\ WF_vars(cleanup_remove)

LiveSpec == LiveInit /\ [][LiveNext]_vars /\ LiveFairness

TypeOK ==
    /\ max_size \in 0..MaxCap
    /\ DOMAIN cache \subseteq Keys
    /\ \A k \in DOMAIN cache : cache[k].image \in {<<k, v>> : v \in Versions}
    /\ queue_lock \in Procs \cup {NoOwner}
\* ==== properties ==========================================================
Returned(p) == pc[p] = "done"

Back(q) == q[Len(q)]

\* A step in which caller p's loader call succeeded and the artifact was inserted.
Inserts(p) == pc[p] = "loading" /\ pc'[p] = "done" /\ result'[p] # NoImage

Evicted == DOMAIN cache \ DOMAIN cache'

\* The steps a process takes once its call or sweep is under way.
Step ==
    \/ \E p \in Procs : get_first_check(p)
    \/ \E p \in Procs : get_cache_write(p)
    \/ \E p \in Procs : get_queue_write(p)
    \/ \E p \in Procs : get_hit_update(p)
    \/ \E p \in Procs : get_recheck(p)
    \/ \E p \in Procs, v \in Versions : get_load_ok(p, v)
    \/ \E p \in Procs : get_load_err(p)
    \/ cleanup_read
    \/ cleanup_collect
    \/ cleanup_write
    \/ cleanup_remove

\* C1 (SeqSpec): with max_size >= 1, whenever no get call is in progress (that
\* is, after every call of a sequence of non-overlapping calls), the map holds
\* at most max_size entries.
C1_CapacitySequential ==
    (max_size >= 1 /\ \A p \in Procs : pc[p] \in {"idle", "done"})
        => Cardinality(DOMAIN cache) <= max_size

\* A call has just inserted a new key into a map that was full when it began.
C1_Witness ==
    \E p \in Procs :
        /\ Returned(p)
        /\ max_size >= 1
        /\ Cardinality(DOMAIN hist.cache) = max_size
        /\ key[p] \notin DOMAIN hist.cache
        /\ key[p] \in DOMAIN cache
        /\ Cardinality(DOMAIN cache) = max_size

\* C2 (Spec): with max_size >= 1, in every reachable state of concurrent get
\* callers and the cleanup task the map holds at most max_size entries.
C2_CapacityConcurrent == max_size >= 1 => Cardinality(DOMAIN cache) <= max_size

\* C3 (SeqSpec): a get(k) issued right after a get(k) that returned an artifact
\* (no other call or sweep in between) never reaches the loader and returns that
\* same artifact; and the loader never runs for a key that is in the map.
C3_HitAfterInsert ==
    \A p \in Procs :
        /\ (pc[p] # "idle" /\ hist.prev_key = key[p] /\ hist.prev_result # NoImage)
              => /\ pc[p] # "loading"
                 /\ Returned(p) => result[p] = hist.prev_result
        /\ pc[p] = "loading" => key[p] \notin DOMAIN cache

\* The second of two consecutive calls for one key has returned the first one's artifact.
C3_Witness ==
    \E p \in Procs :
        /\ Returned(p)
        /\ hist.prev_key = key[p]
        /\ hist.prev_result # NoImage
        /\ result[p] = hist.prev_result

\* C4 (Spec): a get that inserts a new key while the map holds max_size entries
\* (max_size >= 1) removes exactly one entry, the front of the EvictionQueue.
C4_EvictsExactlyOldest ==
    [][\A p \in Procs :
          (Inserts(p) /\ max_size >= 1 /\ Cardinality(DOMAIN cache) = max_size)
              => Evicted = {get_oldest(eviction_queue)}]_vars

\* C5 (Spec): whoever holds the queue lock holds the map's write lock (map before
\* queue); nobody requests the map's write lock while holding its read lock; the
\* cleanup task never holds the queue lock; and whenever a call or a sweep is
\* under way, some process under way can take a step.
C5_LockOrderNoDeadlock ==
    /\ \A p \in Procs :
          /\ queue_lock = p => cache_lock.writer = p
          /\ pc[p] \in {"hit_queue_lock", "miss_queue_lock"} => cache_lock.writer = p
          /\ pc[p] \in {"hit_cache_lock", "miss_cache_lock"} => p \notin cache_lock.readers
    /\ queue_lock # Sweeper
    /\ ((\E p \in Procs : pc[p] \notin {"idle", "done"}) \/ sweep.pc # "idle")
          => ENABLED Step

\* One caller holds the map's write lock and requests the queue lock while
\* another caller and the cleanup task both wait for the map's lock.
C5_Witness ==
    \E p, q \in Procs :
        /\ p # q
        /\ pc[p] = "hit_queue_lock"
        /\ pc[q] = "miss_cache_lock"
        /\ sweep.pc = "write_lock"

\* C6 (Spec): a caller whose loader call is in flight holds both write locks, and
\* at most one loader call is in flight at any time.
C6_LoadSerialized ==
    /\ \A p \in Procs : pc[p] = "loading" => cache_lock.writer = p /\ queue_lock = p
    /\ Cardinality({p \in Procs : pc[p] = "loading"}) <= 1

\* A loader call is in flight while another caller waits to load a different key.
C6_Witness ==
    \E p, q \in Procs :
        /\ pc[p] = "loading"
        /\ pc[q] = "miss_cache_lock"
        /\ key[p] # key[q]

\* C7 (Spec): a caller that finds its key at the re-check returns the stored
\* artifact without loading and without changing the map, and a successful load
\* of k completes only when k is absent, so k is loaded once while it stays.
C7_NoDuplicateLoad ==
    [][\A p \in Procs :
          /\ (pc[p] = "recheck" /\ pc'[p] # "recheck" /\ key[p] \in DOMAIN cache)
                => /\ pc'[p] = "done"
                   /\ result'[p] = cache[key[p]].image
                   /\ cache' = cache
          /\ Inserts(p) => key[p] \notin DOMAIN cache]_vars

\* A caller that missed at the first check is at the re-check and its key is there.
C7_Witness == \E p \in Procs : pc[p] = "recheck" /\ key[p] \in DOMAIN cache

\* C8 (SeqSpec): a call on the miss path leaves map and queue as they were when
\* the call began; when it returns None the key is still absent.
C8_FailureLeavesNoTrace ==
    \A p \in Procs :
        /\ (Returned(p) /\ result[p] = NoImage)
              => /\ cache = hist.cache
                 /\ eviction_queue = hist.queue
                 /\ key[p] \notin DOMAIN cache
        /\ pc[p] \in {"miss_cache_lock", "miss_queue_lock", "recheck", "loading"}
              => cache = hist.cache /\ eviction_queue = hist.queue

\* A call has returned None while the map holds entries.
C8_Witness ==
    \E p \in Procs :
        /\ Returned(p)
        /\ result[p] = NoImage
        /\ cache # <<>>
        /\ Len(eviction_queue) = max_size

\* C9 (Spec): a hit puts its key at the back of the queue; and an eviction never
\* removes a key whose last touch was a hit while another entry, last touched
\* strictly before that hit, is still in the map.
C9_RecencyRespected ==
    [][\A p \in Procs :
          /\ (pc[p] = "hit_update" /\ pc'[p] = "done")
                => Back(eviction_queue') = key[p]
          /\ Inserts(p)
                => \A k \in Evicted : \A j \in DOMAIN cache \ {k} :
                       cache[k].access_count >= 2
                           => cache[j].last_accessed >= cache[k].last_accessed]_vars

\* C10 (Spec): when a sweep completes, no entry remains whose last_accessed is
\* ttl or more before the sweep's start time (such an entry was idle at the
\* start and has not been touched since).
C10_SweepRemovesIdle ==
    [][(sweep.pc # "idle" /\ sweep'.pc = "idle")
          => \A k \in DOMAIN cache' : sweep.now - cache'[k].last_accessed < TTL]_vars

\* The sweep holds the write lock and is about to remove an idle entry while a
\* fresh entry stays.
C10_Witness ==
    /\ sweep.pc = "remove"
    /\ \E k \in sweep.keys_to_remove :
          k \in DOMAIN cache /\ sweep.now - cache[k].last_accessed >= TTL
    /\ \E j \in DOMAIN cache : sweep.now - cache[j].last_accessed < TTL

\* C11 (Spec): the cleanup task never removes an entry that, at the moment of
\* removal, was last accessed less than ttl ago.
C11_SweepSparesFresh ==
    [][(sweep.pc = "remove" /\ sweep'.pc = "idle")
          => \A k \in DOMAIN cache \ DOMAIN cache' :
                 clock - cache[k].last_accessed >= TTL]_vars

\* C12 (ScenarioSpec): after the calls get(A), get(B), get(A), get(C), get(B)
\* on a cache of capacity 2 the map holds 1, 2, 2, 2, 2 entries; after the
\* third call the queue is [B, A] and the loader has run twice; after the
\* fourth the map is {A, C} (B evicted); the fifth call misses at the first
\* check and leaves the map {C, B} (A evicted) with four loader calls in all.
C12_ReferenceScenario ==
    LET n == hist.calls
    IN  /\ (\A p \in Procs : pc[p] \in {"idle", "done"})
              => /\ Cardinality(DOMAIN cache) = <<0, 1, 2, 2, 2, 2>>[n + 1]
                 /\ hist.loads = <<0, 1, 2, 2, 3, 4>>[n + 1]
                 /\ n = 3 => eviction_queue = <<2, 1>>
                 /\ n = 4 => DOMAIN cache = {1, 3}
                 /\ n = 5 => DOMAIN cache = {3, 2}
        /\ \A p \in Procs : (n = 5 /\ pc[p] # "idle") => image[p] = NoImage

\* The fifth call of the scenario has returned.
C12_Witness ==
    \E p \in Procs : Returned(p) /\ hist.calls = 5 /\ hist.loads = 4 /\ result[p] # NoImage

\* C13 (SeqSpec): the get(k) that directly follows a get(k) whose load failed
\* runs the loader again (it returns only from the loader), and when that load
\* succeeds it returns the artifact and k is in the map with that artifact.
C13_NoNegativeCaching ==
    [][\A p \in Procs :
          (/\ hist.prev_key = key[p]
           /\ hist.prev_result = NoImage
           /\ pc[p] \notin {"idle", "done"}
           /\ pc'[p] = "done")
          => /\ pc[p] = "loading"
             /\ result'[p] # NoImage
                  => /\ key[p] \in DOMAIN cache'
                     /\ cache'[key[p]].image = result'[p]]_vars

\* A call that followed a failed call for the same key has loaded and returned it.
C13_Witness ==
    \E p \in Procs :
        /\ Returned(p)
        /\ hist.prev_key = key[p]
        /\ hist.prev_result = NoImage
        /\ result[p] # NoImage
        /\ Lookup(cache, key[p]) = result[p]

\* C14 (Spec): every get(k) that returns a cached artifact without running the
\* loader, whether the hit was found at the first check or at the re-check
\* under the write locks, adds exactly one to k's access_count and sets k's
\* last_accessed to the time of the call.
C14_EveryHitRecorded ==
    [][\A p \in Procs :
          (/\ pc[p] \in {"hit_update", "recheck"}
           /\ pc'[p] = "done"
           /\ result'[p] # NoImage)
          => /\ key[p] \in DOMAIN cache
             /\ key[p] \in DOMAIN cache'
             /\ cache'[key[p]].access_count = cache[key[p]].access_count + 1
             /\ cache'[key[p]].last_accessed = clock]_vars

\* C15 (Spec): in every reachable state each key occurs at most once in the
\* eviction queue.
C15_QueueUnique ==
    \A i, j \in 1..Len(eviction_queue) :
        eviction_queue[i] = eviction_queue[j] => i = j

\* A hit has moved its key, queued before among others, to the back of the queue.
C15_Witness ==
    \E p \in Procs :
        /\ Returned(p)
        /\ Len(eviction_queue) >= 2
        /\ Back(eviction_queue) = key[p]
        /\ key[p] \in DOMAIN cache
        /\ cache[key[p]].access_count >= 2

\* A step in which caller p runs EvictionQueue::update for its key.
Updates(p) == pc'[p] = "done" /\ (pc[p] = "hit_update" \/ Inserts(p))

Range(q) == {q[i] : i \in 1..Len(q)}

\* C16 (Spec, max_size >= 1): the eviction queue never holds more than max_size
\* keys; an update of a new key on a full queue drops the front key and no
\* other, and an update of a key already queued drops no other key.
C16_QueueBound ==
    /\ [](Len(eviction_queue) <= max_size)
    /\ [][\A p \in Procs :
             Updates(p)
             => LET q == eviction_queue
                    k == key[p]
                IN  /\ (k \notin Range(q) /\ Len(q) >= max_size)
                          => eviction_queue' = Append(Tail(q), k)
                    /\ (k \notin Range(q) /\ Len(q) < max_size)
                          => eviction_queue' = Append(q, k)
                    /\ k \in Range(q)
                          => /\ Range(eviction_queue') = Range(q)
                             /\ Len(eviction_queue') = Len(q)]_vars

\* A full queue took a new key: the caller that loaded the key at the back has
\* returned, and so has the caller that loaded the key dropped from the front.
C16_Witness ==
    \E p, r \in Procs :
        /\ Returned(p) /\ Returned(r)
        /\ key[p] # key[r]
        /\ Len(eviction_queue) = max_size
        /\ Back(eviction_queue) = key[p]
        /\ key[r] \notin Range(eviction_queue)
        /\ key[r] \notin DOMAIN cache
        /\ result[r] # NoImage

\* C17 (Spec): whenever no get caller is inside its write-locked section, every
\* key in the map is also in the eviction queue.
C17_StoreWithinQueue ==
    cache_lock.writer \notin Procs => DOMAIN cache \subseteq Range(eviction_queue)

\* C18 (Spec): the cleanup task never holds the queue lock and takes the map's
\* write lock only after its read pass; each of its steps leaves the eviction
\* queue and the queue lock as they were, removes from the map only keys it
\* collected, and leaves every surviving entry unchanged.
C18_SweeperFrame ==
    /\ [](queue_lock # Sweeper)
    /\ [](cache_lock.writer = Sweeper => sweep.pc = "remove")
    /\ [][sweep' # sweep
            => /\ eviction_queue' = eviction_queue
               /\ queue_lock' = queue_lock
               /\ DOMAIN cache' \subseteq DOMAIN cache
               /\ (DOMAIN cache \ DOMAIN cache') \subseteq sweep.keys_to_remove
               /\ \A k \in DOMAIN cache' : cache'[k] = cache[k]]_vars

\* The cleanup task holds the map's write lock and is about to remove some
\* entries and keep others, while the collected keys are still queued.
C18_Witness ==
    /\ sweep.pc = "remove"
    /\ cache_lock.writer = Sweeper
    /\ sweep.keys_to_remove # {}
    /\ sweep.keys_to_remove \subseteq Range(eviction_queue)
    /\ DOMAIN cache \ sweep.keys_to_remove # {}

\* C19 (Spec): when a get(k) found k at the first check and k is gone from the
\* map by the time the call holds the write locks, the call still returns the
\* artifact it cloned and leaves the map exactly as it was.
C19_VanishedTouchNoOp ==
    [][\A p \in Procs :
          (/\ pc[p] = "hit_update"
           /\ key[p] \notin DOMAIN cache
           /\ pc'[p] # pc[p])
          => /\ pc'[p] = "done"
             /\ result'[p] = image[p]
             /\ result'[p] # NoImage
             /\ cache' = cache]_vars

\* A caller returned the artifact it cloned although its key is no longer in
\* the map, which holds another entry.
C19_Witness ==
    \E p \in Procs :
        /\ Returned(p)
        /\ image[p] # NoImage
        /\ result[p] = image[p]
        /\ key[p] \notin DOMAIN cache
        /\ cache # <<>>

\* C20 (Spec): an entry that enters the map, for the first time or again after
\* eviction or expiry, has access_count 1, and the access_count of an entry
\* that stays in the map never decreases.
C20_AccessCountLifecycle ==
    [][/\ \A k \in DOMAIN cache' \ DOMAIN cache : cache'[k].access_count = 1
       /\ \A p \in Procs : Inserts(p)
             => key[p] \in DOMAIN cache' /\ cache'[key[p]].access_count = 1
       /\ \A k \in DOMAIN cache' \cap DOMAIN cache :
             \/ cache'[k].access_count >= cache[k].access_count
             \/ \E p \in Procs : Inserts(p) /\ key[p] = k]_vars

\* A key the cleanup task collected as idle was evicted and has been loaded
\* again since: its entry is new (touched now, which a collected entry was not)
\* and is counted 1.
C20_Witness ==
    \E p \in Procs :
        /\ Returned(p)
        /\ image[p] = NoImage
        /\ result[p] # NoImage
        /\ sweep.pc = "write_lock"
        /\ key[p] \in sweep.keys_to_remove
        /\ key[p] \in DOMAIN cache
        /\ cache[key[p]].last_accessed = clock
        /\ cache[key[p]].access_count = 1

\* C21 (Spec): the map insertion of get runs only when the key was absent at
\* the re-check under both write locks: it never replaces an entry, and each
\* successful loader call adds exactly one entry, under the requested key and
\* holding the loaded artifact.
C21_InsertOnlyOnAbsence ==
    [][\A p \in Procs :
          /\ Inserts(p)
                => /\ cache_lock.writer = p /\ queue_lock = p
                   /\ key[p] \notin DOMAIN cache
                   /\ DOMAIN cache' \ DOMAIN cache = {key[p]}
                   /\ cache'[key[p]].image = result'[p]
                   /\ \A k \in DOMAIN cache' \cap DOMAIN cache : cache'[k] = cache[k]
          /\ (pc[p] = "recheck" /\ pc'[p] = "loading") => key[p] \notin DOMAIN cache]_vars

\* A caller has loaded and inserted its key beside an entry that was there
\* before, while another caller that missed the same key waits for the locks.
C21_Witness ==
    \E p, r \in Procs :
        /\ Returned(p)
        /\ image[p] = NoImage
        /\ result[p] # NoImage
        /\ key[p] \in DOMAIN cache
        /\ Cardinality(DOMAIN cache) >= 2
        /\ pc[r] = "miss_cache_lock"
        /\ key[r] = key[p]

\* C22 (LiveSpec): with fair lock granting, a fair scheduler and a loader that
\* always returns, every get call that was issued eventually returns, whatever
\* the other callers do and while the cleanup task keeps running.
C22_GetTerminates == \A p \in Procs : (pc[p] = "read_lock") ~> Returned(p)

\* A call has returned while the cleanup task waits for the write lock and
\* another caller waits for a lock.
C22_Witness ==
    \E p, r \in Procs :
        /\ Returned(p)
        /\ sweep.pc = "write_lock"
        /\ pc[r] \in {"read_lock", "hit_cache_lock", "miss_cache_lock"}

\* C23 (SeqSpec): a cache built with max_size = 0 works: a successful load
\* evicts nothing when the queue is empty and otherwise evicts the one key the
\* queue holds, and after every successful call of a sequence of
\* non-overlapping calls the map holds the requested key alone and the queue
\* holds exactly that key.
C23_ZeroCapacity ==
    /\ [](\A p \in Procs :
            (max_size = 0 /\ Returned(p) /\ result[p] # NoImage)
               => /\ DOMAIN cache = {key[p]}
                  /\ cache[key[p]].image = result[p]
                  /\ eviction_queue = <<key[p]>>)
    /\ [][\A p \in Procs :
            (max_size = 0 /\ Inserts(p))
               => IF eviction_queue = <<>>
                  THEN DOMAIN cache \subseteq DOMAIN cache'
                  ELSE /\ Len(eviction_queue) = 1
                       /\ DOMAIN cache \ DOMAIN cache' = DOMAIN cache \cap {eviction_queue[1]}]_vars

\* On a cache of capacity zero a call has loaded a key that replaced the entry
\* of another key.
C23_Witness ==
    \E p \in Procs :
        /\ max_size = 0
        /\ Returned(p)
        /\ result[p] # NoImage
        /\ hist.cache # <<>>
        /\ key[p] \notin DOMAIN hist.cache
        /\ DOMAIN cache = {key[p]}
====
